---- MODULE Spec2Model ----
(***************************************************************************)
(* Campaign membership workflow of server.py (FastAPI handlers over a      *)
(* MongoDB document store).  Collections are sequences of documents in     *)
(* natural (insertion) order; find_one / update_one / delete_one act on    *)
(* the first matching document, delete_many on all of them.  Each action   *)
(* below is one HTTP request handled to completion.                        *)
(***************************************************************************)
EXTENDS Integers, Sequences, FiniteSets, TLC

\* ---------------------------------------------------------------- bounds
MaxCampaigns == 2    \* campaigns created in a run (their ids are 1..MaxCampaigns)
MaxCharacters == 1   \* characters created in a run
MaxCampChars == 2    \* campaign characters created in a run
MaxThreats == 1      \* threats created in a run
MaxRolls == 1        \* campaign rolls created in a run
MaxTime == 1         \* distinct values datetime.now() may return
MaxDocs == 4         \* documents created in a run, all collections together
MaxRequests == 2     \* requests the event loop handles at the same time

\* uuid4 values, one pool per collection
CampaignIds == 1..MaxCampaigns
CharacterIds == 1..MaxCharacters
CampCharIds == 1..MaxCampChars
Times == 1..MaxTime
Users == {"M1", "U1"}
UserNames == {"Ana"}             \* odiserName (odiserEmail is handled alike)
Codes == {"K1", "K2"}            \* values generate_invite_code() may return
Names == {"Gon", "Killua"}       \* character names
NoUser == ""
NoCode == ""

VARIABLES
  campaigns,            \* db.campaigns
  campaign_characters,  \* db.campaign_characters
  characters,           \* db.characters
  threats,              \* db.threats
  campaign_rolls,       \* db.campaign_rolls
  uuid,                 \* uuid4 values handed out so far, per collection
  clock,                \* the latest value datetime.now() returned
  last,                 \* the last request: arguments and response
  requests              \* the requests being handled: where each stands and its locals

vars == <<campaigns, campaign_characters, characters, threats, campaign_rolls, uuid, clock, last,
          requests>>

\* ------------------------------------------------------- store primitives
Range(s) == {s[i] : i \in 1..Len(s)}

\* a query filter {field: value, ...} matches the documents equal on its fields
Matches(doc, filter) ==
  \A k \in DOMAIN filter : k \in DOMAIN doc /\ doc[k] = filter[k]

\* index of the first document matching the filter (natural order), 0 when none
FindIdx(s, filter) ==
  IF \E i \in 1..Len(s) : Matches(s[i], filter)
  THEN CHOOSE i \in 1..Len(s) :
         Matches(s[i], filter) /\ \A j \in 1..(i-1) : ~Matches(s[j], filter)
  ELSE 0

RemoveAt(s, i) == SubSeq(s, 1, i-1) \o SubSeq(s, i+1, Len(s))

\* collection.delete_one(filter)
delete_one(s, filter) ==
  LET i == FindIdx(s, filter) IN IF i = 0 THEN s ELSE RemoveAt(s, i)

\* delete_many that stops after the first match
delete_many_First(s, filter) ==
  LET i == FindIdx(s, filter) IN IF i = 0 THEN s ELSE RemoveAt(s, i)

\* collection.delete_many(filter)
delete_many(s, filter) == SelectSeq(s, LAMBDA d : ~Matches(d, filter))

\* {"$pull": {field: v}}: every element equal to v leaves the list
Pull(list, v) == SelectSeq(list, LAMBDA x : x # v)

\* a $pull that removes only the first matching entry
PullWhere_First(list, filter) ==
  LET i == FindIdx(list, filter) IN IF i = 0 THEN list ELSE RemoveAt(list, i)

\* {"$pull": {field: {k: v}}}: every element matching the condition leaves the list
PullWhere(list, filter) == SelectSeq(list, LAMBDA p : ~Matches(p, filter))

\* an update document {"$set": ..., "$push": ..., "$pull": ...}; pull holds the
\* scalar conditions of $pull and pullWhere the document conditions
EmptyPayload == [k \in {} |-> 0]
Update(set, push, pull, pullWhere) ==
  [set |-> set, push |-> push, pull |-> pull, pullWhere |-> pullWhere]

\* the document after the update: $set replaces or adds fields, $push appends
\* to a list field, $pull filters one
ApplyUpdate(doc, upd) ==
  [k \in (DOMAIN doc) \cup (DOMAIN upd.set) |->
     IF k \in DOMAIN upd.set THEN upd.set[k]
     ELSE IF k \in DOMAIN upd.push THEN Append(doc[k], upd.push[k])
     ELSE IF k \in DOMAIN upd.pull THEN Pull(doc[k], upd.pull[k])
     ELSE IF k \in DOMAIN upd.pullWhere THEN PullWhere(doc[k], upd.pullWhere[k])
     ELSE doc[k]]

\* collection.update_one(filter, update): the first match is updated
update_one(s, filter, upd) ==
  LET i == FindIdx(s, filter)
  IN IF i = 0 THEN s ELSE [s EXCEPT ![i] = ApplyUpdate(s[i], upd)]

\* update_data["updatedAt"] = ...: the key is set in the payload itself
Set(doc, upd) ==
  [k \in (DOMAIN doc) \cup (DOMAIN upd) |-> IF k \in DOMAIN upd THEN upd[k] ELSE doc[k]]

\* ------------------------------------------------------------- responses
Response(status, detail, campaignId, characterId) ==
  [status |-> status, detail |-> detail, campaignId |-> campaignId, characterId |-> characterId]

Ok == Response(200, "", 0, 0)
HTTPException(status, detail) == Response(status, detail, 0, 0)

\* datetime.now(timezone.utc): the wall clock does not run backwards
Now == clock..MaxTime

\* documents created so far
Created == uuid.campaigns + uuid.characters + uuid.campaign_characters
             + uuid.threats + uuid.campaign_rolls

\* <<inviteCode, userId>> of the request just handled when it was a successful join
JoinedNow ==
  IF last.op = "join_campaign" /\ last.res.status = 200
  THEN <<last.inviteCode, last.userId>> ELSE <<>>

Request(op, campaignId, userId, inviteCode, characterId, res) ==
  [op |-> op, campaignId |-> campaignId, userId |-> userId, inviteCode |-> inviteCode,
   characterId |-> characterId, res |-> res, after |-> JoinedNow]

\* the coroutines of the event loop; one that handles no request is idle
Requests == 1..MaxRequests

\* the frame of a request: the await it stands before and the locals the
\* handler reads after that await (campaign["id"], input_data, original_char,
\* campaign_char.id)
Frame(pc, campaignId, userId, userName, inviteCode, characterId, original_char, ccId) ==
  [pc |-> pc, campaignId |-> campaignId, userId |-> userId, userName |-> userName,
   inviteCode |-> inviteCode, characterId |-> characterId,
   original_char |-> original_char, ccId |-> ccId]

Idle == Frame("idle", 0, NoUser, NoUser, NoCode, 0, EmptyPayload, 0)

Init ==
  /\ campaigns = <<>>
  /\ campaign_characters = <<>>
  /\ characters = <<>>
  /\ threats = <<>>
  /\ campaign_rolls = <<>>
  /\ uuid = [campaigns |-> 0, characters |-> 0, campaign_characters |-> 0,
             threats |-> 0, campaign_rolls |-> 0]
  /\ clock = 1
  /\ last = [op |-> "start", campaignId |-> 0, userId |-> NoUser, inviteCode |-> NoCode,
             characterId |-> 0, res |-> Ok, after |-> <<>>]
  /\ requests = [p \in Requests |-> Idle]

\* ------------------------------------------------------------ characters
create_character ==
  \E name \in Names, now \in Now :
    LET id == uuid.characters + 1
    IN /\ id <= MaxCharacters /\ Created < MaxDocs
       /\ characters' = Append(characters, [id |-> id, name |-> name, updatedAt |-> now])
       /\ uuid' = [uuid EXCEPT !.characters = id]
       /\ clock' = now
       /\ last' = Request("create_character", 0, NoUser, NoCode, id, Ok)
       /\ UNCHANGED <<requests, campaigns, campaign_characters, threats, campaign_rolls>>

\* Payloads of PUT /characters/{id} and PUT /campaigns/{cid}/character/{id}:
\* any field map is accepted
CharacterPayloads == {EmptyPayload, [name |-> "Killua"], [updatedAt |-> 0]}

CharacterNotFound == HTTPException(404, "Character not found")

\* update_character writing the fields through to the snapshots of the character
update_character_WriteThrough ==
  \E character_id \in CharacterIds, update_data \in CharacterPayloads, now \in Now :
    LET upd == Set(update_data, [updatedAt |-> now])
        matched == FindIdx(characters, [id |-> character_id]) # 0
    IN /\ characters' = update_one(characters, [id |-> character_id],
                                   Update(upd, EmptyPayload, EmptyPayload, EmptyPayload))
       /\ campaign_characters' =
            [i \in 1..Len(campaign_characters) |->
               IF campaign_characters[i].originalCharacterId = character_id
               THEN [campaign_characters[i] EXCEPT !.data = Set(@, upd)]
               ELSE campaign_characters[i]]
       /\ last' = Request("update_character", 0, NoUser, NoCode, character_id,
                          IF matched THEN Ok ELSE CharacterNotFound)
       /\ clock' = now
       /\ UNCHANGED <<requests, campaigns, threats, campaign_rolls, uuid>>

\* PUT /characters/{character_id}
update_character ==
  \E character_id \in CharacterIds, update_data \in CharacterPayloads, now \in Now :
    LET upd == Set(update_data, [updatedAt |-> now])
        matched == FindIdx(characters, [id |-> character_id]) # 0
    IN /\ characters' = update_one(characters, [id |-> character_id],
                                   Update(upd, EmptyPayload, EmptyPayload, EmptyPayload))
       /\ last' = Request("update_character", 0, NoUser, NoCode, character_id,
                          IF matched THEN Ok ELSE CharacterNotFound)
       /\ clock' = now
       /\ UNCHANGED <<requests, campaigns, campaign_characters, threats, campaign_rolls, uuid>>

delete_character ==
  \E character_id \in CharacterIds :
    LET deleted == FindIdx(characters, [id |-> character_id]) # 0
    IN /\ characters' = delete_one(characters, [id |-> character_id])
       /\ last' = Request("delete_character", 0, NoUser, NoCode, character_id,
                          IF deleted THEN Ok ELSE CharacterNotFound)
       /\ UNCHANGED <<requests, campaigns, campaign_characters, threats, campaign_rolls, uuid, clock>>

\* --------------------------------------------------- threats and rolls
create_threat ==
  \E campaignId \in CampaignIds :
    LET id == uuid.threats + 1
    IN /\ id <= MaxThreats /\ Created < MaxDocs
       /\ threats' = Append(threats, [id |-> id, campaignId |-> campaignId])
       /\ uuid' = [uuid EXCEPT !.threats = id]
       /\ last' = Request("create_threat", campaignId, NoUser, NoCode, 0, Ok)
       /\ UNCHANGED <<requests, campaigns, campaign_characters, characters, campaign_rolls, clock>>

create_campaign_roll ==
  \E campaign_id \in CampaignIds :
    LET id == uuid.campaign_rolls + 1
    IN /\ id <= MaxRolls /\ Created < MaxDocs
       /\ campaign_rolls' = Append(campaign_rolls, [id |-> id, campaignId |-> campaign_id])
       /\ uuid' = [uuid EXCEPT !.campaign_rolls = id]
       /\ last' = Request("create_campaign_roll", campaign_id, NoUser, NoCode, 0, Ok)
       /\ UNCHANGED <<requests, campaigns, campaign_characters, characters, threats, clock>>

\* ------------------------------------------------------------ campaigns
\* random.choices over the code alphabet: any code, a stored one included
generate_invite_code == Codes

create_campaign ==
  \E masterId \in Users, code \in generate_invite_code, now \in Now :
    LET id == uuid.campaigns + 1
    IN /\ id <= MaxCampaigns /\ Created < MaxDocs
       /\ campaigns' = Append(campaigns,
            [id |-> id, masterId |-> masterId, inviteCode |-> code,
             players |-> <<>>, playerIds |-> <<>>, updatedAt |-> now])
       /\ uuid' = [uuid EXCEPT !.campaigns = id]
       /\ clock' = now
       /\ last' = Request("create_campaign", id, masterId, code, 0, Ok)
       /\ UNCHANGED <<requests, campaign_characters, characters, threats, campaign_rolls>>

\* Payloads of PUT /campaigns/{id}: any field map is accepted and $set as is
CampaignPayloads ==
  {EmptyPayload}
    \cup {[inviteCode |-> k] : k \in Codes}
    \cup {[masterId |-> u] : u \in Users}
    \cup {[playerIds |-> <<>>]}

CampaignNotFound == HTTPException(404, "Campaign not found")
NotMaster == HTTPException(403, "Only the master can delete the campaign")

update_campaign ==
  \E campaign_id \in CampaignIds, update_data \in CampaignPayloads, now \in Now :
    LET upd == Set(update_data, [updatedAt |-> now])
        matched == FindIdx(campaigns, [id |-> campaign_id]) # 0
    IN /\ campaigns' = update_one(campaigns, [id |-> campaign_id],
                                  Update(upd, EmptyPayload, EmptyPayload, EmptyPayload))
       /\ last' = Request("update_campaign", campaign_id, NoUser, NoCode, 0,
                          IF matched THEN Ok ELSE CampaignNotFound)
       /\ clock' = now
       /\ UNCHANGED <<requests, campaign_characters, characters, threats, campaign_rolls, uuid>>

\* delete_campaign without the comparison of the requester with masterId
DeleteChecks_AnyRequester(i, masterId) ==
  IF i = 0 THEN CampaignNotFound ELSE Ok

\* the checks of delete_campaign; i is the index find_one returned (0: none)
DeleteChecks(i, masterId) ==
  IF i = 0 THEN CampaignNotFound
  ELSE IF campaigns[i].masterId # masterId THEN NotMaster
  ELSE Ok

\* DELETE /campaigns/{campaign_id}?masterId=
delete_campaign ==
  \E campaign_id \in CampaignIds, masterId \in Users :
    LET i == FindIdx(campaigns, [id |-> campaign_id])
        res == DeleteChecks(i, masterId)
    IN /\ last' = Request("delete_campaign", campaign_id, masterId, NoCode, 0, res)
       /\ IF res = Ok
          THEN /\ campaigns' = delete_one(campaigns, [id |-> campaign_id])
               /\ campaign_characters' =
                    delete_many(campaign_characters, [campaignId |-> campaign_id])
               /\ threats' = delete_many(threats, [campaignId |-> campaign_id])
               /\ campaign_rolls' =
                    delete_many(campaign_rolls, [campaignId |-> campaign_id])
          ELSE UNCHANGED <<campaigns, campaign_characters, threats, campaign_rolls>>
       /\ UNCHANGED <<requests, characters, uuid, clock>>

InvalidInviteCode == HTTPException(404, "Invalid invite code")
YouAreTheMaster == HTTPException(400, "You are the master of this campaign")
AlreadyInCampaign == HTTPException(400, "You are already in this campaign")

\* join_campaign looking the character up before it looks at the campaign's members
JoinChecks_CharacterFirst(ci, oi, odiserId) ==
  IF ci = 0 THEN InvalidInviteCode
  ELSE IF oi = 0 THEN CharacterNotFound
  ELSE IF campaigns[ci].masterId = odiserId THEN YouAreTheMaster
  ELSE IF odiserId \in Range(campaigns[ci].playerIds) THEN AlreadyInCampaign
  ELSE Ok

\* join_campaign testing membership before it tests for the master
JoinChecks_MemberFirst(ci, oi, odiserId) ==
  IF ci = 0 THEN InvalidInviteCode
  ELSE IF odiserId \in Range(campaigns[ci].playerIds) THEN AlreadyInCampaign
  ELSE IF campaigns[ci].masterId = odiserId THEN YouAreTheMaster
  ELSE IF oi = 0 THEN CharacterNotFound
  ELSE Ok

\* join_campaign without the membership test
JoinChecks_NoMemberCheck(ci, oi, odiserId) ==
  IF ci = 0 THEN InvalidInviteCode
  ELSE IF campaigns[ci].masterId = odiserId THEN YouAreTheMaster
  ELSE IF oi = 0 THEN CharacterNotFound
  ELSE Ok

\* the checks of join_campaign, in the order of the code; ci and oi are the
\* indexes the two find_one calls return (0: none)
JoinChecks(ci, oi, odiserId) ==
  IF ci = 0 THEN InvalidInviteCode
  ELSE IF campaigns[ci].masterId = odiserId THEN YouAreTheMaster
  ELSE IF odiserId \in Range(campaigns[ci].playerIds) THEN AlreadyInCampaign
  ELSE IF oi = 0 THEN CharacterNotFound
  ELSE Ok

\* POST /campaigns/join
join_campaign ==
  \E inviteCode \in Codes, odiserId \in Users, odiserName \in UserNames,
     characterId \in CharacterIds :
    LET ci == FindIdx(campaigns, [inviteCode |-> inviteCode])
        campaign == campaigns[ci]
        oi == FindIdx(characters, [id |-> characterId])
        original_char == characters[oi]
        id == uuid.campaign_characters + 1
        new_player == [odiserId |-> odiserId, odiserName |-> odiserName, characterId |-> id]
        checks == JoinChecks(ci, oi, odiserId)
        res == IF checks = Ok THEN Response(200, "", campaign.id, id) ELSE checks
    IN /\ last' = Request("join_campaign", 0, odiserId, inviteCode, characterId, res)
       /\ IF res.status = 200
          THEN \E now1 \in Now : \E now2 \in now1..MaxTime :
               /\ id <= MaxCampChars /\ Created < MaxDocs
               /\ campaign_characters' = Append(campaign_characters,
                    [id |-> id, campaignId |-> campaign.id,
                     originalCharacterId |-> characterId, odiserId |-> odiserId,
                     data |-> original_char, updatedAt |-> now1])
               /\ uuid' = [uuid EXCEPT !.campaign_characters = id]
               /\ campaigns' = update_one(campaigns, [id |-> campaign.id],
                    Update([updatedAt |-> now2],
                           [playerIds |-> odiserId, players |-> new_player],
                           EmptyPayload, EmptyPayload))
               /\ clock' = now2
          ELSE UNCHANGED <<campaigns, campaign_characters, uuid, clock>>
       /\ UNCHANGED <<requests, characters, threats, campaign_rolls>>

MasterCannotLeave == HTTPException(400, "Master cannot leave the campaign")

\* leave_campaign without the test for the master
LeaveChecks_MasterLeaves(i, userId) ==
  IF i = 0 THEN CampaignNotFound ELSE Ok

\* the checks of leave_campaign; i is the index find_one returned (0: none)
LeaveChecks(i, userId) ==
  IF i = 0 THEN CampaignNotFound
  ELSE IF userId = campaigns[i].masterId THEN MasterCannotLeave
  ELSE Ok

\* POST /campaigns/{campaign_id}/leave
leave_campaign ==
  \E campaign_id \in CampaignIds, userId \in Users :
    LET i == FindIdx(campaigns, [id |-> campaign_id])
        res == LeaveChecks(i, userId)
    IN /\ last' = Request("leave_campaign", campaign_id, userId, NoCode, 0, res)
       /\ IF res = Ok
          THEN \E now \in Now :
               /\ campaigns' = update_one(campaigns, [id |-> campaign_id],
                    Update([updatedAt |-> now], EmptyPayload,
                           [playerIds |-> userId], [players |-> [odiserId |-> userId]]))
               /\ campaign_characters' = delete_many(campaign_characters,
                    [campaignId |-> campaign_id, odiserId |-> userId])
               /\ clock' = now
          ELSE UNCHANGED <<campaigns, campaign_characters, clock>>
       /\ UNCHANGED <<requests, characters, threats, campaign_rolls, uuid>>

CampaignCharacterNotFound == HTTPException(404, "Campaign character not found")

\* the response of GET /campaigns/{campaign_id}/character/{user_id} on a store
GetCampaignCharacter(chars, campaign_id, user_id) ==
  LET i == FindIdx(chars, [campaignId |-> campaign_id, odiserId |-> user_id])
  IN IF i = 0 THEN CampaignCharacterNotFound
     ELSE Response(200, "", campaign_id, chars[i].id)

get_campaign_character ==
  \E campaign_id \in CampaignIds, user_id \in Users :
    /\ last' = Request("get_campaign_character", campaign_id, user_id, NoCode, 0,
                       GetCampaignCharacter(campaign_characters, campaign_id, user_id))
    /\ UNCHANGED <<requests, campaigns, campaign_characters, characters, threats, campaign_rolls,
                   uuid, clock>>

\* update_campaign_character merging the fields into the stored data
\* ({"$set": {"data.<field>": ...}}) instead of replacing data
update_campaign_character_Merge ==
  \E campaign_id \in CampaignIds, character_id \in CampCharIds,
     update_data \in CharacterPayloads, now1 \in Now :
   \E now2 \in now1..MaxTime :
    LET i == FindIdx(campaign_characters, [id |-> character_id, campaignId |-> campaign_id])
        data == Set(campaign_characters[i].data, Set(update_data, [updatedAt |-> now1]))
    IN /\ campaign_characters' = update_one(campaign_characters,
            [id |-> character_id, campaignId |-> campaign_id],
            Update([data |-> data, updatedAt |-> now2],
                   EmptyPayload, EmptyPayload, EmptyPayload))
       /\ last' = Set(Request("update_campaign_character", campaign_id, NoUser, NoCode,
                              character_id,
                              IF i # 0 THEN Ok ELSE CampaignCharacterNotFound),
                      [update_data |-> update_data])
       /\ clock' = now2
       /\ UNCHANGED <<requests, campaigns, characters, threats, campaign_rolls, uuid>>

\* PUT /campaigns/{campaign_id}/character/{character_id}; the request body is
\* kept with the request (last.update_data)
update_campaign_character ==
  \E campaign_id \in CampaignIds, character_id \in CampCharIds,
     update_data \in CharacterPayloads, now1 \in Now :
   \E now2 \in now1..MaxTime :
    LET data == Set(update_data, [updatedAt |-> now1])
        matched == FindIdx(campaign_characters,
                           [id |-> character_id, campaignId |-> campaign_id]) # 0
    IN /\ campaign_characters' = update_one(campaign_characters,
            [id |-> character_id, campaignId |-> campaign_id],
            Update([data |-> data, updatedAt |-> now2],
                   EmptyPayload, EmptyPayload, EmptyPayload))
       /\ last' = Set(Request("update_campaign_character", campaign_id, NoUser, NoCode,
                              character_id,
                              IF matched THEN Ok ELSE CampaignCharacterNotFound),
                      [update_data |-> update_data])
       /\ clock' = now2
       /\ UNCHANGED <<requests, campaigns, characters, threats, campaign_rolls, uuid>>

Next ==
  \/ create_character
  \/ update_character
  \/ delete_character
  \/ create_threat
  \/ create_campaign_roll
  \/ create_campaign
  \/ update_campaign
  \/ delete_campaign
  \/ join_campaign
  \/ leave_campaign
  \/ get_campaign_character
  \/ update_campaign_character

Spec == Init /\ [][Next]_vars

\* ------------------------------------------------ requests in one event loop
\* The handlers are coroutines: the event loop may run another request at every
\* await.  Each action below is one awaited store operation of a handler,
\* together with the code that runs up to the next await.

\* join_campaign: await db.campaigns.find_one({"inviteCode": ...}) and the
\* tests on the campaign it returned
join_find_campaign(p) ==
  \E inviteCode \in Codes, odiserId \in Users, odiserName \in UserNames,
     characterId \in CharacterIds :
    LET ci == FindIdx(campaigns, [inviteCode |-> inviteCode])
        \* the character is looked up after the next await: 1 stands for "not yet"
        checks == JoinChecks(ci, 1, odiserId)
    IN /\ requests[p].pc = "idle"
       /\ IF checks = Ok
          THEN /\ requests' = [requests EXCEPT ![p] =
                    Frame("join_find_character", campaigns[ci].id, odiserId, odiserName,
                          inviteCode, characterId, EmptyPayload, 0)]
               /\ UNCHANGED last
          ELSE /\ last' = Request("join_campaign", 0, odiserId, inviteCode, characterId, checks)
               /\ UNCHANGED requests
       /\ UNCHANGED <<campaigns, campaign_characters, characters, threats, campaign_rolls,
                      uuid, clock>>

\* join_campaign: await db.characters.find_one({"id": ...})
join_find_character(p) ==
  LET f == requests[p]
      oi == FindIdx(characters, [id |-> f.characterId])
  IN /\ f.pc = "join_find_character"
     /\ IF oi = 0
        THEN /\ last' = Request("join_campaign", 0, f.userId, f.inviteCode, f.characterId,
                                CharacterNotFound)
             /\ requests' = [requests EXCEPT ![p] = Idle]
        ELSE /\ requests' = [requests EXCEPT ![p] =
                  [f EXCEPT !.pc = "join_insert", !.original_char = characters[oi]]]
             /\ UNCHANGED last
     /\ UNCHANGED <<campaigns, campaign_characters, characters, threats, campaign_rolls,
                    uuid, clock>>

\* join_campaign: CampaignCharacter(...) and await db.campaign_characters.insert_one
join_insert(p) ==
  \E now \in Now :
    LET f == requests[p]
        id == uuid.campaign_characters + 1
    IN /\ f.pc = "join_insert"
       /\ id <= MaxCampChars /\ Created < MaxDocs
       /\ campaign_characters' = Append(campaign_characters,
            [id |-> id, campaignId |-> f.campaignId,
             originalCharacterId |-> f.characterId, odiserId |-> f.userId,
             data |-> f.original_char, updatedAt |-> now])
       /\ uuid' = [uuid EXCEPT !.campaign_characters = id]
       /\ clock' = now
       /\ requests' = [requests EXCEPT ![p] = [f EXCEPT !.pc = "join_update", !.ccId = id]]
       /\ UNCHANGED <<campaigns, characters, threats, campaign_rolls, last>>

\* join_campaign: CampaignPlayer(...), await db.campaigns.update_one and return
join_update(p) ==
  \E now \in Now :
    LET f == requests[p]
        new_player == [odiserId |-> f.userId, odiserName |-> f.userName,
                       characterId |-> f.ccId]
    IN /\ f.pc = "join_update"
       /\ campaigns' = update_one(campaigns, [id |-> f.campaignId],
            Update([updatedAt |-> now],
                   [playerIds |-> f.userId, players |-> new_player],
                   EmptyPayload, EmptyPayload))
       /\ clock' = now
       /\ last' = Request("join_campaign", 0, f.userId, f.inviteCode, f.characterId,
                          Response(200, "", f.campaignId, f.ccId))
       /\ requests' = [requests EXCEPT ![p] = Idle]
       /\ UNCHANGED <<campaign_characters, characters, threats, campaign_rolls, uuid>>

\* leave_campaign: await db.campaigns.find_one({"id": ...}) and the tests on it
leave_find(p) ==
  \E campaign_id \in CampaignIds, userId \in Users :
    LET res == LeaveChecks(FindIdx(campaigns, [id |-> campaign_id]), userId)
    IN /\ requests[p].pc = "idle"
       /\ IF res = Ok
          THEN /\ requests' = [requests EXCEPT ![p] =
                    Frame("leave_update", campaign_id, userId, NoUser, NoCode, 0,
                          EmptyPayload, 0)]
               /\ UNCHANGED last
          ELSE /\ last' = Request("leave_campaign", campaign_id, userId, NoCode, 0, res)
               /\ UNCHANGED requests
       /\ UNCHANGED <<campaigns, campaign_characters, characters, threats, campaign_rolls,
                      uuid, clock>>

\* leave_campaign: await db.campaigns.update_one with the two $pull
leave_update(p) ==
  \E now \in Now :
    LET f == requests[p]
    IN /\ f.pc = "leave_update"
       /\ campaigns' = update_one(campaigns, [id |-> f.campaignId],
            Update([updatedAt |-> now], EmptyPayload,
                   [playerIds |-> f.userId], [players |-> [odiserId |-> f.userId]]))
       /\ clock' = now
       /\ requests' = [requests EXCEPT ![p] = [f EXCEPT !.pc = "leave_delete"]]
       /\ UNCHANGED <<campaign_characters, characters, threats, campaign_rolls, uuid, last>>

\* leave_campaign: await db.campaign_characters.delete_many and return
leave_delete(p) ==
  LET f == requests[p]
  IN /\ f.pc = "leave_delete"
     /\ campaign_characters' = delete_many(campaign_characters,
          [campaignId |-> f.campaignId, odiserId |-> f.userId])
     /\ last' = Request("leave_campaign", f.campaignId, f.userId, NoCode, 0, Ok)
     /\ requests' = [requests EXCEPT ![p] = Idle]
     /\ UNCHANGED <<campaigns, characters, threats, campaign_rolls, uuid, clock>>

\* delete_campaign: await db.campaigns.find_one({"id": ...}) and the tests on it
delete_find(p) ==
  \E campaign_id \in CampaignIds, masterId \in Users :
    LET res == DeleteChecks(FindIdx(campaigns, [id |-> campaign_id]), masterId)
    IN /\ requests[p].pc = "idle"
       /\ IF res = Ok
          THEN /\ requests' = [requests EXCEPT ![p] =
                    Frame("delete_campaign", campaign_id, masterId, NoUser, NoCode, 0,
                          EmptyPayload, 0)]
               /\ UNCHANGED last
          ELSE /\ last' = Request("delete_campaign", campaign_id, masterId, NoCode, 0, res)
               /\ UNCHANGED requests
       /\ UNCHANGED <<campaigns, campaign_characters, characters, threats, campaign_rolls,
                      uuid, clock>>

\* delete_campaign: await db.campaigns.delete_one
delete_campaign_doc(p) ==
  LET f == requests[p]
  IN /\ f.pc = "delete_campaign"
     /\ campaigns' = delete_one(campaigns, [id |-> f.campaignId])
     /\ requests' = [requests EXCEPT ![p] = [f EXCEPT !.pc = "delete_characters"]]
     /\ UNCHANGED <<campaign_characters, characters, threats, campaign_rolls, uuid, clock,
                    last>>

\* delete_campaign: await db.campaign_characters.delete_many
delete_campaign_characters(p) ==
  LET f == requests[p]
  IN /\ f.pc = "delete_characters"
     /\ campaign_characters' = delete_many(campaign_characters, [campaignId |-> f.campaignId])
     /\ requests' = [requests EXCEPT ![p] = [f EXCEPT !.pc = "delete_threats"]]
     /\ UNCHANGED <<campaigns, characters, threats, campaign_rolls, uuid, clock, last>>

\* delete_campaign: await db.threats.delete_many
delete_campaign_threats(p) ==
  LET f == requests[p]
  IN /\ f.pc = "delete_threats"
     /\ threats' = delete_many(threats, [campaignId |-> f.campaignId])
     /\ requests' = [requests EXCEPT ![p] = [f EXCEPT !.pc = "delete_rolls"]]
     /\ UNCHANGED <<campaigns, campaign_characters, characters, campaign_rolls, uuid, clock,
                    last>>

\* delete_campaign: await db.campaign_rolls.delete_many and return
delete_campaign_rolls(p) ==
  LET f == requests[p]
  IN /\ f.pc = "delete_rolls"
     /\ campaign_rolls' = delete_many(campaign_rolls, [campaignId |-> f.campaignId])
     /\ last' = Request("delete_campaign", f.campaignId, f.userId, NoCode, 0, Ok)
     /\ requests' = [requests EXCEPT ![p] = Idle]
     /\ UNCHANGED <<campaigns, campaign_characters, characters, threats, uuid, clock>>

\* create requests (one await each) and join, leave and delete requests, the
\* latter interleaved at their awaits
NextInterleaved ==
  \/ create_character
  \/ create_campaign
  \/ create_threat
  \/ create_campaign_roll
  \/ \E p \in Requests : join_find_campaign(p)
  \/ \E p \in Requests : join_find_character(p)
  \/ \E p \in Requests : join_insert(p)
  \/ \E p \in Requests : join_update(p)
  \/ \E p \in Requests : leave_find(p)
  \/ \E p \in Requests : leave_update(p)
  \/ \E p \in Requests : leave_delete(p)
  \/ \E p \in Requests : delete_find(p)
  \/ \E p \in Requests : delete_campaign_doc(p)
  \/ \E p \in Requests : delete_campaign_characters(p)
  \/ \E p \in Requests : delete_campaign_threats(p)
  \/ \E p \in Requests : delete_campaign_rolls(p)

SpecInterleaved == Init /\ [][NextInterleaved]_vars

\* ----------------------------------------------------------- properties
Store == <<campaigns, campaign_characters, characters, threats, campaign_rolls>>

\* the error taxonomy of the specification, as the handlers raise it
Conflict == AlreadyInCampaign
InvalidOperation == YouAreTheMaster

HasCharacter(id) == \E ch \in Range(characters) : ch.id = id
CharacterDoc(id) == CHOOSE ch \in Range(characters) : ch.id = id

\* The step added one CampaignCharacter for (campaigns[i], u), a snapshot of
\* character c, and one entry for u to players and to playerIds of campaigns[i].
JoinEffect(i, u, c) ==
  LET n == Len(campaign_characters)
      cc == campaign_characters'[n + 1]
  IN /\ Len(campaign_characters') = n + 1
     /\ SubSeq(campaign_characters', 1, n) = campaign_characters
     /\ cc.campaignId = campaigns[i].id
     /\ cc.originalCharacterId = c
     /\ cc.odiserId = u
     /\ cc.data = CharacterDoc(c)
     /\ cc.id = last'.res.characterId
     /\ last'.res.campaignId = campaigns[i].id
     /\ Len(campaigns') = Len(campaigns)
     /\ campaigns'[i].playerIds = Append(campaigns[i].playerIds, u)
     /\ Len(campaigns'[i].players) = Len(campaigns[i].players) + 1
     /\ SubSeq(campaigns'[i].players, 1, Len(campaigns[i].players)) = campaigns[i].players
     /\ campaigns'[i].players[Len(campaigns[i].players) + 1].odiserId = u
     /\ campaigns'[i].players[Len(campaigns[i].players) + 1].characterId = cc.id

JoinSucceeds == last'.op = "join_campaign" /\ last'.res.status = 200

\* C1: for EVERY campaign with the invite code of which the user is neither
\* master nor member, a successful join with an existing character adds one
\* CampaignCharacter of that campaign (a snapshot of the character) and one
\* entry for the user to that campaign's players and playerIds.
C1_JoinAddsExactlyOne ==
  [][JoinSucceeds =>
       \A i \in 1..Len(campaigns) :
         ( /\ campaigns[i].inviteCode = last'.inviteCode
           /\ campaigns[i].masterId # last'.userId
           /\ last'.userId \notin Range(campaigns[i].playerIds)
           /\ HasCharacter(last'.characterId) )
         => JoinEffect(i, last'.userId, last'.characterId)]_vars

\* The same effect for the one campaign the lookup by invite code returns
\* (the first in natural order); holds also when invite codes collide.
JoinAddsToResolvedCampaign ==
  [][JoinSucceeds =>
       JoinEffect(FindIdx(campaigns, [inviteCode |-> last'.inviteCode]),
                  last'.userId, last'.characterId)]_vars

\* C2: join reports the first failing check in the order invite code, master,
\* member, character; when a check fails no document is created or changed.
C2_JoinChecksInOrder ==
  [][last'.op = "join_campaign" =>
       LET u == last'.userId
           i == FindIdx(campaigns, [inviteCode |-> last'.inviteCode])
           noCampaign == \A d \in Range(campaigns) : d.inviteCode # last'.inviteCode
           isMaster == ~noCampaign /\ campaigns[i].masterId = u
           isMember == ~noCampaign /\ u \in Range(campaigns[i].playerIds)
           noCharacter == ~HasCharacter(last'.characterId)
       IN /\ noCampaign => last'.res = InvalidInviteCode
          /\ (~noCampaign /\ isMaster) => last'.res = InvalidOperation
          /\ (~noCampaign /\ ~isMaster /\ isMember) => last'.res = Conflict
          /\ (~noCampaign /\ ~isMaster /\ ~isMember /\ noCharacter)
               => last'.res = CharacterNotFound
          /\ (noCampaign \/ isMaster \/ isMember \/ noCharacter) => UNCHANGED Store
          /\ ~(noCampaign \/ isMaster \/ isMember \/ noCharacter)
               => last'.res.status = 200]_vars

\* a join by a user who is master and member of the campaign, with a character
\* that does not exist: checks 2, 3 and 4 all fail and the second is reported
C2_Witness ==
  /\ last.op = "join_campaign"
  /\ last.res = InvalidOperation
  /\ ~HasCharacter(last.characterId)
  /\ \E d \in Range(campaigns) :
       d.inviteCode = last.inviteCode /\ d.masterId = last.userId
         /\ last.userId \in Range(d.playerIds)

\* C3 as stated: a join by a user who is the master of a campaign fails with
\* InvalidOperation whatever invite code is supplied.
C3_MasterJoinAnyCode ==
  (last.op = "join_campaign" /\ \E d \in Range(campaigns) : d.masterId = last.userId)
    => last.res = InvalidOperation

\* C3 amended: a join whose invite code resolves to a campaign whose master is
\* the joining user fails with InvalidOperation, whatever character is named
\* and whether or not the user is a member.
C3_MasterJoinFails ==
  [][last'.op = "join_campaign" =>
       LET i == FindIdx(campaigns, [inviteCode |-> last'.inviteCode])
       IN (i # 0 /\ campaigns[i].masterId = last'.userId)
            => (last'.res = InvalidOperation /\ UNCHANGED Store)]_vars

\* the master tried to join the own campaign with an existing character
C3_Witness ==
  /\ last.op = "join_campaign"
  /\ last.res = InvalidOperation
  /\ HasCharacter(last.characterId)
  /\ LET i == FindIdx(campaigns, [inviteCode |-> last.inviteCode])
     IN i # 0 /\ campaigns[i].masterId = last.userId

\* C4: a join repeated right after a successful join with the same invite code
\* and user fails with Conflict, a response other than that of InvalidOperation,
\* and adds no CampaignCharacter and no players / playerIds entry.
C4_SecondJoinConflicts ==
  [][(last'.op = "join_campaign" /\ last'.after = <<last'.inviteCode, last'.userId>>)
       => /\ last'.res = Conflict
          /\ last'.res # InvalidOperation
          /\ UNCHANGED Store]_vars

\* the second of two joins in a row, the first of which created the snapshot
C4_Witness ==
  /\ last.op = "join_campaign"
  /\ last.after = <<last.inviteCode, last.userId>>
  /\ last.res = Conflict
  /\ \E cc \in Range(campaign_characters) : cc.odiserId = last.userId

\* C5: after a successful leave the campaign has no players entry and no
\* playerIds element for the user, no CampaignCharacter of (campaign, user) is
\* stored, and get_campaign_character answers NotFound for them.
C5_LeaveRemovesMember ==
  (last.op = "leave_campaign" /\ last.res = Ok) =>
    /\ \E d \in Range(campaigns) : d.id = last.campaignId
    /\ \A d \in Range(campaigns) :
         d.id = last.campaignId =>
           /\ \A p \in Range(d.players) : p.odiserId # last.userId
           /\ last.userId \notin Range(d.playerIds)
    /\ \A cc \in Range(campaign_characters) :
         ~(cc.campaignId = last.campaignId /\ cc.odiserId = last.userId)
    /\ GetCampaignCharacter(campaign_characters, last.campaignId, last.userId)
         = CampaignCharacterNotFound

\* create campaign, join, leave: the user left right after joining the only
\* campaign; players and playerIds are empty and the snapshot is gone
C5_Witness ==
  /\ last.op = "leave_campaign"
  /\ last.res = Ok
  /\ last.after # <<>>
  /\ last.after[2] = last.userId
  /\ uuid.campaigns = 1
  /\ uuid.campaign_characters = 1
  /\ Len(campaigns) = 1
  /\ campaigns[1].id = last.campaignId
  /\ campaigns[1].inviteCode = last.after[1]
  /\ campaigns[1].players = <<>>
  /\ campaigns[1].playerIds = <<>>
  /\ campaign_characters = <<>>

\* C6: delete_campaign by a requester other than the stored master fails with
\* Forbidden and leaves every document of every collection as it was.
C6_DeleteByNonMaster ==
  [][last'.op = "delete_campaign" =>
       LET i == FindIdx(campaigns, [id |-> last'.campaignId])
       IN (i # 0 /\ campaigns[i].masterId # last'.userId)
            => (last'.res = NotMaster /\ last'.res.status = 403 /\ UNCHANGED Store)]_vars

\* a non-master was refused; the campaign still has a snapshot and a threat
C6_Witness ==
  /\ last.op = "delete_campaign"
  /\ last.res = NotMaster
  /\ \E d \in Range(campaigns) : d.id = last.campaignId /\ d.masterId # last.userId
  /\ \E cc \in Range(campaign_characters) : cc.campaignId = last.campaignId
  /\ \E t \in Range(threats) : t.campaignId = last.campaignId

\* C7: after a successful delete_campaign no campaign with the id and no
\* CampaignCharacter, Threat or CampaignRoll with that campaignId is stored.
C7_DeleteCascades ==
  (last.op = "delete_campaign" /\ last.res = Ok) =>
    /\ \A d \in Range(campaigns) : d.id # last.campaignId
    /\ \A cc \in Range(campaign_characters) : cc.campaignId # last.campaignId
    /\ \A t \in Range(threats) : t.campaignId # last.campaignId
    /\ \A r \in Range(campaign_rolls) : r.campaignId # last.campaignId

\* the master deleted the only campaign right after a player joined it; the
\* snapshot and the threat that had been created are gone with it
C7_Witness ==
  /\ last.op = "delete_campaign"
  /\ last.res = Ok
  /\ last.after # <<>>
  /\ uuid.campaigns = 1
  /\ uuid.threats = 1
  /\ campaigns = <<>>
  /\ campaign_characters = <<>>
  /\ threats = <<>>

\* C8: leave_campaign with the master's id on an existing campaign fails with
\* InvalidOperation and changes no document (players, playerIds, updatedAt,
\* campaign characters).
C8_MasterCannotLeave ==
  [][last'.op = "leave_campaign" =>
       LET i == FindIdx(campaigns, [id |-> last'.campaignId])
       IN (i # 0 /\ campaigns[i].masterId = last'.userId)
            => (last'.res = MasterCannotLeave /\ last'.res.status = 400
                  /\ UNCHANGED Store)]_vars

\* the master, who is also listed as a player with a snapshot, was refused
C8_Witness ==
  /\ last.op = "leave_campaign"
  /\ last.res = MasterCannotLeave
  /\ \E d \in Range(campaigns) :
       /\ d.id = last.campaignId
       /\ d.masterId = last.userId
       /\ last.userId \in Range(d.playerIds)
       /\ \E p \in Range(d.players) : p.odiserId = last.userId
  /\ \E cc \in Range(campaign_characters) :
       cc.campaignId = last.campaignId /\ cc.odiserId = last.userId

\* C9: in every campaign playerIds is the list of the odiserId of players.
C9_PlayerIdsInSync ==
  \A d \in Range(campaigns) :
    /\ Len(d.playerIds) = Len(d.players)
    /\ \A i \in 1..Len(d.players) : d.playerIds[i] = d.players[i].odiserId

\* C10: updating or deleting a character changes no campaign character, and
\* updating a campaign character changes no character.
C10_SnapshotIndependent ==
  [][/\ last'.op \in {"update_character", "delete_character"}
          => UNCHANGED campaign_characters
     /\ last'.op = "update_campaign_character" => UNCHANGED characters]_vars

\* the source character was renamed after the join: the snapshot keeps the old name
C10_Witness ==
  /\ last.op = "update_character"
  /\ last.res = Ok
  /\ \E cc \in Range(campaign_characters) :
       /\ cc.originalCharacterId = last.characterId
       /\ "name" \in DOMAIN cc.data
       /\ cc.data.id = last.characterId
       /\ cc.data.name # CharacterDoc(last.characterId).name

\* C11: in every state reached by interleaved join, leave and delete requests,
\* at most one CampaignCharacter is stored for a campaign and a user.
C11_AtMostOnePerUser ==
  \A a, b \in 1..Len(campaign_characters) :
    ( /\ campaign_characters[a].campaignId = campaign_characters[b].campaignId
      /\ campaign_characters[a].odiserId = campaign_characters[b].odiserId )
    => a = b

NotFound == CampaignCharacterNotFound

\* C12 as stated: update_campaign_character on a CampaignCharacter matching
\* (id, campaignId) leaves its data equal to the request body, no key retained
\* and none added; when none matches it fails with NotFound and changes nothing.
C12_DataEqualsNewFields ==
  [][last'.op = "update_campaign_character" =>
       LET i == FindIdx(campaign_characters,
                        [id |-> last'.characterId, campaignId |-> last'.campaignId])
       IN IF i # 0
          THEN last'.res = Ok /\ campaign_characters'[i].data = last'.update_data
          ELSE last'.res = NotFound /\ UNCHANGED Store]_vars

\* C12 amended: the data of the matching CampaignCharacter becomes the request
\* body with the key updatedAt set to the time of the request (in place of an
\* updatedAt of the body); no other key of the previous data is kept and no
\* other key is added, and nothing else in the store changes but the
\* document's own updatedAt.  When none matches: NotFound, nothing changes.
C12_DataReplacedAndStamped ==
  [][last'.op = "update_campaign_character" =>
       LET i == FindIdx(campaign_characters,
                        [id |-> last'.characterId, campaignId |-> last'.campaignId])
           newFields == last'.update_data
       IN IF i # 0
          THEN /\ last'.res = Ok
               /\ Len(campaign_characters') = Len(campaign_characters)
               /\ \A j \in 1..Len(campaign_characters) :
                    j # i => campaign_characters'[j] = campaign_characters[j]
               /\ DOMAIN campaign_characters'[i] = DOMAIN campaign_characters[i]
               /\ \A k \in DOMAIN campaign_characters[i] \ {"data", "updatedAt"} :
                    campaign_characters'[i][k] = campaign_characters[i][k]
               /\ DOMAIN campaign_characters'[i].data = DOMAIN newFields \cup {"updatedAt"}
               /\ \A k \in DOMAIN newFields \ {"updatedAt"} :
                    campaign_characters'[i].data[k] = newFields[k]
               /\ campaign_characters'[i].data.updatedAt \in clock..MaxTime
               /\ campaign_characters'[i].updatedAt \in clock..MaxTime
               /\ UNCHANGED <<campaigns, characters, threats, campaign_rolls>>
          ELSE last'.res = NotFound /\ UNCHANGED Store]_vars

\* the snapshot of a character was given a new name only: the id and the other
\* keys of the snapshot's data are gone, the name and updatedAt are its data
C12_Witness ==
  /\ last.op = "update_campaign_character"
  /\ last.res = Ok
  /\ last.update_data = [name |-> "Killua"]
  /\ \E cc \in Range(campaign_characters) :
       /\ cc.id = last.characterId
       /\ cc.campaignId = last.campaignId
       /\ DOMAIN cc.data = {"name", "updatedAt"}
       /\ cc.data.name = "Killua"
       /\ HasCharacter(cc.originalCharacterId)
       /\ CharacterDoc(cc.originalCharacterId).name = "Gon"

\* C13: no two stored campaigns have the same invite code.
C13_InviteCodesUnique ==
  \A a, b \in 1..Len(campaigns) :
    campaigns[a].inviteCode = campaigns[b].inviteCode => a = b

\* C14: in every state reached by interleaved join and leave requests, each
\* entry of a campaign's players names a stored CampaignCharacter with the
\* entry's characterId, the campaign's id and the entry's odiserId.
C14_NoDanglingPlayer ==
  \A d \in Range(campaigns) :
    \A pl \in Range(d.players) :
      \E cc \in Range(campaign_characters) :
        /\ cc.id = pl.characterId
        /\ cc.campaignId = d.id
        /\ cc.odiserId = pl.odiserId
====
